---- MODULE Spec2Model ----
(***************************************************************************)
(* Model of the slcan (LAWICEL) session and frame codec of slcan.js.       *)
(*                                                                         *)
(* A JavaScript string is a sequence of character codes.  A JavaScript     *)
(* object is a record; a property whose value is `undefined` is an absent  *)
(* field.  `null` in the last-command slot is the sentinel Null, which is  *)
(* different from every string.                                            *)
(***************************************************************************)
EXTENDS Integers, Sequences, FiniteSets, TLC

(***************************************************************************)
(* Character codes of the literals that occur in the source.               *)
(***************************************************************************)
BEL == 7
CR == 13
SP == 32
Ch0 == 48
Ch9 == 57
ChA == 65
ChF == 70
ChO == 79
ChR == 82
ChS == 83
ChT == 84
ChZ == 90
Cha == 97
Chf == 102
Chr == 114
Cht == 116
Chx == 120
Chz == 122

STD_ID_LEN == 3
EXT_ID_LEN == 8
MAX_DLC == 8

Null == <<0 - 1>>
CMD_OPEN_BUS == <<ChO, CR>>

Min(a, b) == IF a < b THEN a ELSE b

(***************************************************************************)
(* String primitives of the JavaScript runtime used by the codec.          *)
(***************************************************************************)

\* String.prototype.substr(start, length) for 0 <= start, 0 <= length.
Substr(s, start, n) ==
    IF start >= Len(s) THEN <<>>
    ELSE SubSeq(s, start + 1, Min(start + n, Len(s)))

\* String.prototype.substr(start): the rest of the string.
SubstrFrom(s, start) == Substr(s, start, Len(s))

\* String.prototype.toUpperCase on ASCII.
UpperChar(c) == IF c >= Cha /\ c <= Chz THEN c - (Cha - ChA) ELSE c
toUpperCase(s) == [i \in 1..Len(s) |-> UpperChar(s[i])]

\* One digit of Number.prototype.toString(radix): lower-case letters.
DigitChar(d) == IF d < 10 THEN Ch0 + d ELSE Cha + (d - 10)

RECURSIVE ToStringRadix(_, _)
\* Number.prototype.toString(radix) of a non-negative integer.
ToStringRadix(n, radix) ==
    IF n < radix THEN <<DigitChar(n)>>
    ELSE ToStringRadix(n \div radix, radix) \o <<DigitChar(n % radix)>>

\* White space that StringToNumber trims (the part inside the alphabet).
IsWhiteSpace(c) == c \in {9, 10, 11, 12, CR, SP}

IsDecDigit(c) == c >= Ch0 /\ c <= Ch9
IsHexDigit(c) == \/ IsDecDigit(c)
                 \/ (c >= ChA /\ c <= ChF)
                 \/ (c >= Cha /\ c <= Chf)
HexVal(c) == IF IsDecDigit(c) THEN c - Ch0
             ELSE IF c >= Cha THEN c - Cha + 10 ELSE c - ChA + 10

RECURSIVE TrimLeft(_)
TrimLeft(s) == IF s # <<>> /\ IsWhiteSpace(Head(s)) THEN TrimLeft(Tail(s)) ELSE s

RECURSIVE TrimRight(_)
TrimRight(s) ==
    IF s # <<>> /\ IsWhiteSpace(s[Len(s)])
    THEN TrimRight(SubSeq(s, 1, Len(s) - 1)) ELSE s

RECURSIVE DigitsValue(_, _, _)
\* Value of a string of digits in the given radix, accumulated left to right.
DigitsValue(s, radix, acc) ==
    IF s = <<>> THEN acc
    ELSE DigitsValue(Tail(s), radix, acc * radix + HexVal(Head(s)))

NaN == [nan |-> TRUE, val |-> 0]
Num(v) == [nan |-> FALSE, val |-> v]
isNaN(r) == r.nan

\* Number(string), i.e. StringToNumber: white space is trimmed on both
\* sides, the empty string is 0, "0x"/"0X" followed by at least one hex
\* digit is a hex literal, a string of decimal digits is a decimal literal.
\* Signs, fractions, exponents and the other literal forms cannot occur in
\* the two uses made by the codec ("0x" + field, and a one-character DLC)
\* without making the result NaN here as well.
Number(s) ==
    LET t == TrimRight(TrimLeft(s)) IN
    IF t = <<>> THEN Num(0)
    ELSE IF Len(t) >= 2 /\ t[1] = Ch0 /\ t[2] \in {Chx, 88}
    THEN LET h == SubstrFrom(t, 2) IN
         IF h # <<>> /\ \A i \in 1..Len(h) : IsHexDigit(h[i])
         THEN Num(DigitsValue(h, 16, 0)) ELSE NaN
    ELSE IF \A i \in 1..Len(t) : IsDecDigit(t[i])
    THEN Num(DigitsValue(t, 10, 0))
    ELSE NaN

(***************************************************************************)
(* JavaScript objects: property assignment on a record.                    *)
(***************************************************************************)
\* obj[name] = v
SetProp(obj, name, v) == (name :> v) @@ obj

\* obj[name] = undefined: the property is left without a value.
SetUndefined(obj, name) == [k \in (DOMAIN obj) \ {name} |-> obj[k]]

HasProp(obj, name) == name \in DOMAIN obj

(***************************************************************************)
(* The frame object of ./frame: constructed from an identifier, standard   *)
(* data frame by default, no payload, no timestamp.                        *)
(***************************************************************************)
frame(id) ==
    [id |-> id, is_ext_id |-> FALSE, is_remote |-> FALSE,
     dlc |-> 0, data |-> <<>>]

(***************************************************************************)
(* slcan.prototype._packFrame                                              *)
(***************************************************************************)
ID_PAD == <<Ch0, Ch0, Ch0, Ch0, Ch0, Ch0, Ch0>>

\* A JavaScript number can be wider than the integers of the model checker.
\* The id of a frame is the integer f.id; a frame that has the property
\* id_hi stands for the number f.id_hi * 16^7 + f.id, with f.id < 16^7 and
\* f.id_hi > 0.  ID_LIMB_DIGITS is the number of hex digits of the low limb.
ID_LIMB_DIGITS == 7

\* s left-padded with "0" to n characters
RECURSIVE PadZeros(_, _)
PadZeros(s, n) == IF Len(s) >= n THEN s ELSE PadZeros(<<Ch0>> \o s, n)

\* frame.id.toString(16)
IdToString16(f) ==
    IF HasProp(f, "id_hi")
    THEN ToStringRadix(f.id_hi, 16)
         \o PadZeros(ToStringRadix(f.id, 16), ID_LIMB_DIGITS)
    ELSE ToStringRadix(f.id, 16)

\* variant: the field keeps the first `width` characters
PackId_HighDigits(id16, width) ==
    LET id_str == ID_PAD \o id16
    IN  toUpperCase(Substr(id_str, Len(id_str) - Len(id16), width))

\* variant: the hex digits are left in lower case
PackId_LowerCase(id16, width) ==
    LET id_str == ID_PAD \o id16
    IN  SubstrFrom(id_str, Len(id_str) - width)

\* "0000000" + id.toString(16), cut to its last `width` characters, upper
\* case; id16 is id.toString(16)
PackId(id16, width) ==
    LET id_str == ID_PAD \o id16
    IN  toUpperCase(SubstrFrom(id_str, Len(id_str) - width))

\* variant: the byte is not padded to two characters
PackByte_NoPad(b) == toUpperCase(ToStringRadix(b, 16))

\* one data byte: "0" + b.toString(16).toUpperCase(), last two characters
PackByte(b) ==
    LET byte_str == <<Ch0>> \o toUpperCase(ToStringRadix(b, 16))
    IN  SubstrFrom(byte_str, Len(byte_str) - 2)

RECURSIVE PackBytes(_, _, _)
\* the loop for (i = 0; i < frame.dlc; i++) over frame.data[i]
PackBytes(data, i, dlc) ==
    IF i < dlc THEN PackByte(data[i + 1]) \o PackBytes(data, i + 1, dlc)
    ELSE <<>>

\* variant: the length is not capped at 8
PackDlc_Uncapped(data) == Len(data)

\* frame.dlc = (frame.data.length > 8) ? 8 : frame.data.length
PackDlc(data) == IF Len(data) > MAX_DLC THEN MAX_DLC ELSE Len(data)

\* variant: the digit and the byte count are taken from the dlc the frame
\* carries, which is rewritten only afterwards
packFrame_StoredDlc(f) ==
    LET res0 == IF f.is_remote THEN <<Chr>> ELSE <<Cht>>
        res1 == IF f.is_ext_id THEN toUpperCase(res0) ELSE res0
        res2 == res1 \o (IF f.is_ext_id THEN PackId(IdToString16(f), EXT_ID_LEN)
                                        ELSE PackId(IdToString16(f), STD_ID_LEN))
        res3 == res2 \o ToStringRadix(f.dlc, 10)
        res4 == res3 \o PackBytes(f.data, 0, Min(f.dlc, Len(f.data)))
    IN  [str |-> res4 \o <<CR>>, frame |-> SetProp(f, "dlc", PackDlc(f.data))]

\* The returned line and the frame as the call leaves it (dlc rewritten).
packFrame(f) ==
    LET res0 == IF f.is_remote THEN <<Chr>> ELSE <<Cht>>
        res1 == IF f.is_ext_id THEN toUpperCase(res0) ELSE res0
        res2 == res1 \o (IF f.is_ext_id THEN PackId(IdToString16(f), EXT_ID_LEN)
                                        ELSE PackId(IdToString16(f), STD_ID_LEN))
        dlc  == PackDlc(f.data)
        res3 == res2 \o ToStringRadix(dlc, 10)
        res4 == res3 \o PackBytes(f.data, 0, dlc)
    IN  [str |-> res4 \o <<CR>>, frame |-> SetProp(f, "dlc", dlc)]

(***************************************************************************)
(* slcan.prototype._parseFrame                                             *)
(* The result is either a thrown value or the returned frame.              *)
(***************************************************************************)
Throw(e) == [ok |-> FALSE, err |-> e]
Return(f) == [ok |-> TRUE, frame |-> f]

ERR_TYPE_ERROR == [name |-> "TypeError"]
ERR_OPEN_FAILED == [msg |-> "Open Failed! (Bus already open?)"]
ERR_BAD_TYPE(str) ==
    [msg |-> "Invalid slcand frame! (bad frame type char)", debugStr |-> str]
ERR_BAD_ID == [msg |-> "Invalid ID value"]
ERR_BAD_DLC == [msg |-> "Invalid DLC value"]
ERR_BAD_BYTE(i) == [msg |-> "Invalid data byte at position", i |-> i]

\* The BEL branch: if (this._lastCMD == CMD_OPEN_BUS) throw ...; there is no
\* else, so any other last command falls out of the chain with is_ext_id
\* and is_remote unassigned.
BelReply_Ignored(lastCMD) ==
    [ok |-> TRUE, set |-> FALSE, is_ext_id |-> FALSE, is_remote |-> FALSE]

\* variant: every BEL is taken as the answer to "O\r"
BelReply_AnyCmd(lastCMD) == Throw(ERR_OPEN_FAILED)

BelReply(lastCMD) ==
    IF lastCMD = CMD_OPEN_BUS
    THEN Throw(ERR_OPEN_FAILED)
    ELSE [ok |-> TRUE, set |-> FALSE, is_ext_id |-> FALSE, is_remote |-> FALSE]

\* The if/else-if chain on str[0].  `set` tells whether is_ext_id and
\* is_remote were assigned; on the BEL branch without a throw they stay
\* undefined.  str[0] of the empty string is undefined, so every ===
\* comparison fails and str[0].charCodeAt raises a TypeError.
FrameType(str, lastCMD) ==
    IF str = <<>> THEN Throw(ERR_TYPE_ERROR)
    ELSE IF str[1] = Cht
    THEN [ok |-> TRUE, set |-> TRUE, is_ext_id |-> FALSE, is_remote |-> FALSE]
    ELSE IF str[1] = Chr
    THEN [ok |-> TRUE, set |-> TRUE, is_ext_id |-> FALSE, is_remote |-> TRUE]
    ELSE IF str[1] = ChT
    THEN [ok |-> TRUE, set |-> TRUE, is_ext_id |-> TRUE, is_remote |-> FALSE]
    ELSE IF str[1] = ChR
    THEN [ok |-> TRUE, set |-> TRUE, is_ext_id |-> TRUE, is_remote |-> TRUE]
    ELSE IF str[1] = BEL
    THEN BelReply(lastCMD)
    ELSE Throw(ERR_BAD_TYPE(str))

RECURSIVE ParseData(_, _, _, _, _)
\* the loop for (i = 0; i < dlc; i++): Number("0x" + str.substr(pos, 2))
ParseData(str, idLen, i, dlc, data) ==
    IF i < dlc
    THEN LET pos == 2 + idLen + i * 2
             b   == Number(<<Ch0, Chx>> \o Substr(str, pos, 2))
         IN  IF isNaN(b) THEN Throw(ERR_BAD_BYTE(i))
             ELSE ParseData(str, idLen, i + 1, dlc, Append(data, b.val))
    ELSE [ok |-> TRUE, data |-> data]

\* var res = new frame(id); res.id_ext_id = ...; res.is_remote = ...; ...
ParsedFrame(ty, id, dlc, data) ==
    LET r0 == frame(id)
        r1 == IF ty.set THEN SetProp(r0, "id_ext_id", ty.is_ext_id)
                        ELSE SetUndefined(r0, "id_ext_id")
        r2 == IF ty.set THEN SetProp(r1, "is_remote", ty.is_remote)
                        ELSE SetUndefined(r1, "is_remote")
        r3 == SetProp(r2, "dlc", dlc)
    IN  SetProp(r3, "data", data)

parseFrame(str, lastCMD) ==
    LET ty == FrameType(str, lastCMD) IN
    IF ~ty.ok THEN ty
    ELSE
    LET ext   == ty.set /\ ty.is_ext_id
        idLen == IF ext THEN EXT_ID_LEN ELSE STD_ID_LEN
        id    == Number(<<Ch0, Chx>> \o Substr(str, 1, idLen))
    IN
    IF isNaN(id) THEN Throw(ERR_BAD_ID)
    ELSE
    LET dlc == Number(Substr(str, 1 + idLen, 1)) IN
    IF isNaN(dlc) \/ dlc.val < 0 \/ dlc.val > MAX_DLC THEN Throw(ERR_BAD_DLC)
    ELSE
    LET d == ParseData(str, idLen, 0, dlc.val, <<>>) IN
    IF ~d.ok THEN d
    ELSE Return(ParsedFrame(ty, id.val, dlc.val, d.data))

(***************************************************************************)
(* Bounds and input sets.                                                  *)
(***************************************************************************)
MaxDataLen == 9      \* longest payload an application frame carries
MaxTailLen == 3      \* characters after the DLC position of a raw line
MaxSends == 1        \* send() calls in one behaviour
MaxLines == 2        \* inbound lines in one behaviour
MaxNow == 1          \* clock readings Date.now() can return

Str1(c) == <<c>>
HexId3 == <<Ch0 + 1, Ch0 + 2, Ch0 + 3>>                       \* "123"
HexId8 == <<Ch0 + 1, ChA, Chf, Ch0, Ch0, Ch0, ChF, Ch0 + 7>>  \* "1Af000F7"

\* identifiers: inside and outside the 11-bit and 29-bit ranges
StdIds == {0, 129, 2047}
ExtIds == {1, 2048, 536870911}
WideIds == {2048, 4096}
ByteValues == {10, 255}

DataSeqs(n) == UNION {[1..k -> ByteValues] : k \in 0..n}

\* the frame of example/testcan.js
ExampleFrame ==
    [frame(129) EXCEPT !.data = <<50, 0, 133, 100, 17, 3, 0, 0>>]

AppFrame(id, ext, remote, dlc, data) ==
    [frame(id) EXCEPT !.is_ext_id = ext, !.is_remote = remote,
                      !.dlc = dlc, !.data = data]

\* a frame whose dlc does not match its payload
StaleDlcFrame == AppFrame(1, TRUE, TRUE, 3, <<>>)

\* a frame with a data value above 255
OverByteFrame == AppFrame(129, FALSE, FALSE, 0, <<256, 10>>)

\* identifiers of more than 8 hex digits, as limbs: 0x112345678,
\* 0x11ABCDEF0, 0x1FF12345678 and 0x1FF1ABCDEF0
BigIdLow == {36984440, 180150000}
BigIdHigh == {17, 8177}

\* frames an application hands to pack
CodecFrames ==
    {AppFrame(id, FALSE, r, 0, d) :
        id \in StdIds \cup WideIds, r \in BOOLEAN, d \in DataSeqs(MaxDataLen)}
    \cup
    {AppFrame(id, TRUE, r, 0, d) :
        id \in ExtIds \cup WideIds, r \in BOOLEAN, d \in DataSeqs(MaxDataLen)}
    \cup {ExampleFrame, StaleDlcFrame, OverByteFrame}
    \cup {SetProp(AppFrame(lo, e, r, 0, d), "id_hi", hi) :
             lo \in BigIdLow, hi \in BigIdHigh, e \in BOOLEAN, r \in BOOLEAN,
             d \in DataSeqs(1)}

\* raw inbound lines: a type character and identifier field, then up to
\* 1 + MaxTailLen further characters
LineHeads ==
    {Str1(Cht) \o HexId3, Str1(Chr) \o HexId3,
     Str1(ChT) \o HexId8, Str1(ChR) \o HexId8,
     Str1(Cht) \o <<Ch0, Chx, Ch0>>,
     Str1(ChT) \o HexId3,
     Str1(Chx) \o HexId3,
     Str1(BEL), Str1(BEL) \o HexId3,
     <<>>}
DlcChars == {Ch0, Ch0 + 1, Ch0 + 2, Ch0 + 8, Ch9, ChA, SP}
TailChars == {Ch0 + 1, Chf, ChZ, SP}
Tails(n) == UNION {[1..k -> TailChars] : k \in 0..n}
CodecLines ==
    LineHeads \cup
    {h \o Str1(c) \o t : h \in LineHeads \ {<<>>}, c \in DlcChars,
                          t \in Tails(MaxTailLen)}

(***************************************************************************)
(* State.                                                                  *)
(***************************************************************************)
VARIABLES
    dev_str,     \* this._dev_str
    speed,       \* this._speed
    conn,        \* this._conn: "null" or the serial port object
    lastCMD,     \* this._lastCMD
    ready,       \* the port has emitted "open"
    written,     \* what the port was asked to do, in order
    delivered,   \* frames passed to recvFrameCallback, in order
    logged,      \* values passed to console.log, in order
    escaped,     \* values thrown out of an event handler of the port
    now,         \* the reading of Date.now()
    opens,       \* open() calls so far
    nsend,       \* send() calls so far
    sendArg,     \* the frame object as passed to the latest send()
    sendFrame,   \* the same object when that call ended
    sendThrown,  \* what that call threw, NoError when it returned
    nrecv,       \* lines handed to _serialRecvCallback so far
    inLine,      \* the latest such line
    cbThrew,     \* the callback raised an error while handling it
    cpc,         \* codec harness: position
    cLastCMD,    \* codec harness: this._lastCMD seen by _parseFrame
    cFrame0,     \* codec harness: the frame as the application built it
    cFrame,      \* codec harness: the frame object, as pack leaves it
    cLine,       \* codec harness: the line packed or received
    cPrevLine,   \* codec harness: the line of the pack call before
    cResult      \* codec harness: outcome of _parseFrame

sessionVars == <<dev_str, speed, conn, lastCMD, ready, written, delivered,
                 logged, escaped, now, opens, nsend, sendArg, sendFrame,
                 sendThrown, nrecv, inLine,
                   cbThrew>>
codecVars == <<cpc, cLastCMD, cFrame0, cFrame, cLine, cPrevLine, cResult>>
vars == <<sessionVars, codecVars>>

NoError == [name |-> "none"]
NoResult == [ok |-> FALSE, err |-> NoError]

\* the constructor slcan(dev_str, speed, recvFrameCallback)
slcan(d, sp) ==
    /\ dev_str = d
    /\ speed = sp
    /\ conn = "null"
    /\ lastCMD = Null
    /\ ready = FALSE
    /\ written = <<>>
    /\ delivered = <<>>
    /\ logged = <<>>
    /\ escaped = <<>>
    /\ opens = 0
    /\ nsend = 0
    /\ sendArg = frame(0)
    /\ sendFrame = frame(0)
    /\ sendThrown = NoError
    /\ nrecv = 0
    /\ inLine = <<>>
    /\ cbThrew = FALSE

CodecIdle ==
    /\ cpc = "idle"
    /\ cLastCMD = Null
    /\ cFrame0 = frame(0)
    /\ cFrame = frame(0)
    /\ cLine = <<>>
    /\ cPrevLine = <<>>
    /\ cResult = NoResult

(***************************************************************************)
(* The session: slcan.prototype.open, send, _serialWrite and the two       *)
(* event handlers.  Each handler runs to completion (single-threaded).     *)
(***************************************************************************)
Device == "/dev/cu.usbmodem1431"
Speeds == {0, 5}

ERR_NOT_CONNECTED == [msg |-> "Not connected to serial device"]
ERR_CALLBACK == [name |-> "CallbackError"]
MSG_CONNECTED(d) == [msg |-> "connected to device ", dev |-> d]

OpFlush == [op |-> "flush"]
OpWrite(str) == [op |-> "write", str |-> str]

\* frames the application sends; the second carries a stale dlc
SendFrames ==
    {ExampleFrame, StaleDlcFrame}

\* lines the adapter sends (terminator stripped by the line splitter)
InLines ==
    {Str1(Cht) \o HexId3 \o <<Ch0 + 2, Ch0, Ch0 + 1, Chf, Chf>>,
     Str1(BEL),
     Str1(BEL) \o HexId3 \o <<Ch0>>,
     <<>>,
     Str1(Chx) \o HexId3 \o <<Ch0>>,
     Str1(Cht) \o <<Ch0, Chx, Ch0, Ch0>>,
     Str1(Cht) \o HexId3 \o <<Ch9>>,
     Str1(Cht) \o HexId3 \o <<Ch0 + 2, Chf, Chf>>}

\* open(): the port object is created and the two handlers are registered.
\* Reopening is left open by the design; the application opens once.
open ==
    /\ opens = 0
    /\ opens' = opens + 1
    /\ conn' = "port"
    /\ UNCHANGED <<dev_str, speed, lastCMD, ready, written, delivered, logged,
                   escaped, now, nsend, sendArg, sendFrame, sendThrown,
                   nrecv, inLine,
                   cbThrew>>
    /\ UNCHANGED codecVars

\* variant: the string is written without being recorded
serialWrite_NoRecord(s, str) ==
    [lastCMD |-> s.lastCMD, written |-> Append(s.written, OpWrite(str))]

\* _serialWrite(str) on the pair (this._lastCMD, port)
serialWrite(s, str) ==
    [lastCMD |-> str, written |-> Append(s.written, OpWrite(str))]

\* this._conn.flush()
flush(s) == [lastCMD |-> s.lastCMD, written |-> Append(s.written, OpFlush)]

\* "S" + this._speed + "\r"
CmdSpeed(sp) == Str1(ChS) \o ToStringRadix(sp, 10) \o Str1(CR)

\* variant: the two commands are issued in the other order
handshake_Swapped(s, sp) ==
    serialWrite(serialWrite(flush(s), <<ChO, CR>>), CmdSpeed(sp))

\* the body of _serialOpenCallback after the log line: flush, "S<speed>\r",
\* then "O\r"
handshake(s, sp) ==
    serialWrite(serialWrite(flush(s), CmdSpeed(sp)), <<ChO, CR>>)

\* _serialOpenCallback: fired once by the port when it is open
serialOpenCallback ==
    /\ conn = "port"
    /\ ~ready
    /\ ready' = TRUE
    /\ logged' = Append(logged, MSG_CONNECTED(dev_str))
    /\ LET s == handshake([lastCMD |-> lastCMD, written |-> written], speed)
       IN  /\ lastCMD' = s.lastCMD
           /\ written' = s.written
    /\ UNCHANGED <<dev_str, speed, conn, delivered, escaped, now, opens,
                   nsend, sendArg, sendFrame, sendThrown, nrecv, inLine,
                   cbThrew>>
    /\ UNCHANGED codecVars

\* variant: the connection is not checked
notConnected_Unchecked(c) == FALSE

\* variant: the test is the wrong way round
notConnected_Inverted(c) == c # "null"

\* if (!this._conn)
notConnected(c) == c = "null"

\* send(frame)
send(f) ==
    /\ nsend < MaxSends
    /\ nsend' = nsend + 1
    /\ sendArg' = f
    /\ IF notConnected(conn)
       THEN /\ sendThrown' = ERR_NOT_CONNECTED
            /\ sendFrame' = f
            /\ UNCHANGED <<lastCMD, written>>
       ELSE LET p == packFrame(f)
                s == serialWrite([lastCMD |-> lastCMD, written |-> written],
                                 p.str)
            IN  /\ sendThrown' = NoError
                /\ sendFrame' = p.frame
                /\ lastCMD' = s.lastCMD
                /\ written' = s.written
    /\ UNCHANGED <<dev_str, speed, conn, ready, delivered, logged, escaped,
                   now, opens, nrecv, inLine,
                   cbThrew>>
    /\ UNCHANGED codecVars

\* variant: the error is thrown on instead of being logged
catchError_Rethrow(st, err) == [st EXCEPT !.escaped = Append(@, err)]

\* variant: the slot is cleared once an error has been reported
catchError_ClearCmd(st, err) ==
    [st EXCEPT !.logged = Append(@, err), !.lastCMD = Null]

\* catch(err){ console.log(err); }
catchError(st, err) == [st EXCEPT !.logged = Append(@, err)]

\* variant: the callback is called before the time stamp is set
deliverFrame_Unstamped(st, fr, t, cbThrows) ==
    LET st1 == [st EXCEPT !.delivered = Append(@, fr)]
    IN  IF cbThrows THEN catchError(st1, ERR_CALLBACK) ELSE st1

\* variant: the callback is called outside the try block
deliverFrame_Uncaught(st, fr, t, cbThrows) ==
    LET st1 == [st EXCEPT !.delivered = Append(@, SetProp(fr, "timestamp", t))]
    IN  IF cbThrows THEN [st1 EXCEPT !.escaped = Append(@, ERR_CALLBACK)]
        ELSE st1

\* frame.timestamp = Date.now(); this.recvFrameCallback(frame); inside the
\* try block, so that what the callback throws is caught as well
deliverFrame(st, fr, t, cbThrows) ==
    LET st1 == [st EXCEPT !.delivered = Append(@, SetProp(fr, "timestamp", t))]
    IN  IF cbThrows THEN catchError(st1, ERR_CALLBACK) ELSE st1

\* _serialRecvCallback(data); cbThrows: the application callback throws
serialRecvCallback(data, cbThrows) ==
    /\ ready
    /\ nrecv < MaxLines
    /\ nrecv' = nrecv + 1
    /\ inLine' = data
    /\ \E r \in {parseFrame(data, lastCMD)} :
       LET st  == [delivered |-> delivered, logged |-> logged,
                   escaped |-> escaped, lastCMD |-> lastCMD,
                   written |-> written]
       IN  \E out \in {IF r.ok THEN deliverFrame(st, r.frame, now, cbThrows)
                              ELSE catchError(st, r.err)} :
           /\ delivered' = out.delivered
           /\ logged' = out.logged
           /\ escaped' = out.escaped
           /\ lastCMD' = out.lastCMD
           /\ written' = out.written
           /\ cbThrew' = (r.ok /\ cbThrows)
    /\ UNCHANGED <<dev_str, speed, conn, ready,
                   now, opens, nsend, sendArg, sendFrame, sendThrown>>
    /\ UNCHANGED codecVars

\* time passes between events
Tick ==
    /\ now < MaxNow
    /\ now' = now + 1
    /\ UNCHANGED <<dev_str, speed, conn, lastCMD, ready, written, delivered,
                   logged, escaped, opens, nsend, sendArg, sendFrame,
                   sendThrown, nrecv, inLine,
                   cbThrew>>
    /\ UNCHANGED codecVars

Init ==
    /\ \E sp \in Speeds : slcan(Device, sp)
    /\ now = 0
    /\ CodecIdle

Next ==
    \/ open
    \/ serialOpenCallback
    \/ \E f \in SendFrames : send(f)
    \/ \E data \in InLines, cbThrows \in BOOLEAN : serialRecvCallback(data, cbThrows)
    \/ Tick

Spec == Init /\ [][Next]_vars

(***************************************************************************)
(* The codec on its own: pack a frame and parse the result, or parse a     *)
(* raw line.                                                               *)
(***************************************************************************)
CodecLastCMDs == {CMD_OPEN_BUS, packFrame(ExampleFrame).str}

InitCodec ==
    /\ slcan(Device, 5)
    /\ now = 0
    /\ cResult = NoResult
    /\ cPrevLine = <<>>
    /\ \/ /\ cpc = "frame"
          /\ cLastCMD = CMD_OPEN_BUS
          /\ cFrame0 \in CodecFrames
          /\ cFrame = cFrame0
          /\ cLine = <<>>
       \/ /\ cpc = "line"
          /\ cLastCMD \in CodecLastCMDs
          /\ cFrame0 = frame(0)
          /\ cFrame = cFrame0
          /\ cLine \in CodecLines

CodecPack ==
    /\ cpc = "frame"
    /\ cpc' = "packed"
    /\ LET p == packFrame(cFrame) IN
       /\ cLine' = p.str
       /\ cFrame' = p.frame
    /\ UNCHANGED <<cLastCMD, cFrame0, cPrevLine, cResult>>
    /\ UNCHANGED sessionVars

\* _packFrame called a second time on the same frame object
CodecRepack ==
    /\ cpc = "packed"
    /\ cpc' = "repacked"
    /\ LET p == packFrame(cFrame) IN
       /\ cPrevLine' = cLine
       /\ cLine' = p.str
       /\ cFrame' = p.frame
    /\ UNCHANGED <<cLastCMD, cFrame0, cResult>>
    /\ UNCHANGED sessionVars

CodecParse ==
    /\ cpc \in {"packed", "line"}
    /\ cpc' = IF cpc = "packed" THEN "roundtrip" ELSE "parsed"
    /\ cResult' = parseFrame(cLine, cLastCMD)
    /\ UNCHANGED <<cLastCMD, cFrame0, cFrame, cLine, cPrevLine>>
    /\ UNCHANGED sessionVars

NextCodec == CodecPack \/ CodecRepack \/ CodecParse

SpecCodec == InitCodec /\ [][NextCodec]_vars

(***************************************************************************)
(* Properties of the codec (checked under SpecCodec).                      *)
(***************************************************************************)

\* The frame came back from parse(pack(f)) with the fields of f.
RoundTripped(f, r) ==
    /\ r.ok
    /\ r.frame.id = f.id
    /\ r.frame.is_ext_id = f.is_ext_id
    /\ HasProp(r.frame, "is_remote")
    /\ r.frame.is_remote = f.is_remote
    /\ r.frame.dlc = Len(f.data)
    /\ r.frame.data = f.data

InByteRange(data) == \A i \in 1..Len(data) : data[i] >= 0 /\ data[i] <= 255

\* C1: for every standard frame f with 0 <= id <= 0x7FF, at most 8 data
\* bytes in 0..255 and either is_remote, parse(pack(f)) succeeds and returns
\* the same id, is_ext_id = false, the same is_remote, dlc = len(data) and
\* the same data.
C1_RoundTripStandard ==
    (/\ cpc = "roundtrip"
     /\ ~cFrame0.is_ext_id
     /\ ~HasProp(cFrame0, "id_hi")
     /\ cFrame0.id >= 0 /\ cFrame0.id <= 2047
     /\ Len(cFrame0.data) <= 8
     /\ InByteRange(cFrame0.data))
    => RoundTripped(cFrame0, cResult)

C1_Witness ==
    /\ cpc = "roundtrip"
    /\ ~cFrame0.is_ext_id
    /\ cFrame0.is_remote
    /\ cFrame0.id = 2047
    /\ Len(cFrame0.data) = 8
    /\ cFrame0.data[1] = 10
    /\ cFrame0.data[8] = 255
    /\ RoundTripped(cFrame0, cResult)

\* C2: for every extended frame f with 0 <= id <= 0x1FFFFFFF, at most 8
\* data bytes in 0..255 and either is_remote, parse(pack(f)) succeeds and
\* returns the same id, is_ext_id = true, the same is_remote,
\* dlc = len(data) and the same data.
C2_RoundTripExtended ==
    (/\ cpc = "roundtrip"
     /\ cFrame0.is_ext_id
     /\ ~HasProp(cFrame0, "id_hi")
     /\ cFrame0.id >= 0 /\ cFrame0.id <= 536870911
     /\ Len(cFrame0.data) <= 8
     /\ InByteRange(cFrame0.data))
    => RoundTripped(cFrame0, cResult)

\* A line that starts with one of t, r, T, R followed by a complete
\* identifier field of hex digits; IdLenOf is the width of that field.
IdLenOf(str) == IF str[1] \in {ChT, ChR} THEN EXT_ID_LEN ELSE STD_ID_LEN
ValidHead(str) ==
    /\ str # <<>>
    /\ str[1] \in {Cht, Chr, ChT, ChR}
    /\ Len(str) >= 1 + IdLenOf(str)
    /\ \A i \in 2..(1 + IdLenOf(str)) : IsHexDigit(str[i])

\* the character at the DLC position, when the line has one
HasDlcChar(str) == Len(str) >= 2 + IdLenOf(str)
DlcChar(str) == str[2 + IdLenOf(str)]

\* C9: parse rejects with the bad-DLC error every line with a valid type
\* character and identifier whose DLC position is absent, is not a decimal
\* digit, or holds 9; it lets the DLC digits 0 to 8 pass.
C9_BadDlcRejected ==
    (cpc = "parsed" /\ ValidHead(cLine))
    => IF HasDlcChar(cLine) /\ IsDecDigit(DlcChar(cLine))
          /\ DlcChar(cLine) - Ch0 <= 8
       THEN cResult.ok \/ cResult.err # ERR_BAD_DLC
       ELSE ~cResult.ok /\ cResult.err = ERR_BAD_DLC

\* the two-character field of data byte i (from 0) is complete and hex
ByteFieldOk(str, i) ==
    LET pos == 2 + IdLenOf(str) + 2 * i
    IN  /\ Len(str) >= pos + 2
        /\ IsHexDigit(str[pos + 1])
        /\ IsHexDigit(str[pos + 2])

FirstBadByte(str, n) ==
    CHOOSE i \in 0..(n - 1) :
        /\ ~ByteFieldOk(str, i)
        /\ \A j \in 0..(i - 1) : ByteFieldOk(str, j)

\* C10: on a line with a valid type character, identifier and DLC digit n
\* that has fewer than 2n characters after the DLC digit, parse fails with
\* the bad-data-byte error for the first byte whose two-character field is
\* incomplete or not hexadecimal.
C10_ShortDataRejected ==
    (/\ cpc = "parsed"
     /\ ValidHead(cLine)
     /\ HasDlcChar(cLine)
     /\ IsDecDigit(DlcChar(cLine))
     /\ DlcChar(cLine) - Ch0 <= 8
     /\ Len(cLine) - (2 + IdLenOf(cLine)) < 2 * (DlcChar(cLine) - Ch0))
    => /\ ~cResult.ok
       /\ cResult.err = ERR_BAD_BYTE(FirstBadByte(cLine, DlcChar(cLine) - Ch0))

(***************************************************************************)
(* The line format, written out digit by digit.                            *)
(***************************************************************************)
HexUpper == <<Ch0, Ch0 + 1, Ch0 + 2, Ch0 + 3, Ch0 + 4, Ch0 + 5, Ch0 + 6,
              Ch0 + 7, Ch0 + 8, Ch9, ChA, ChA + 1, ChA + 2, ChA + 3, ChA + 4,
              ChF>>

RECURSIVE Pow16(_)
Pow16(k) == IF k = 0 THEN 1 ELSE 16 * Pow16(k - 1)

\* hex digit k (0 = lowest) of the identifier of frame f
IdDigit(f, k) ==
    IF HasProp(f, "id_hi")
    THEN IF k < ID_LIMB_DIGITS THEN (f.id \div Pow16(k)) % 16
         ELSE IF k - ID_LIMB_DIGITS < ID_LIMB_DIGITS
         THEN (f.id_hi \div Pow16(k - ID_LIMB_DIGITS)) % 16 ELSE 0
    ELSE IF k <= ID_LIMB_DIGITS THEN (f.id \div Pow16(k)) % 16 ELSE 0

IdWidth(f) == IF f.is_ext_id THEN 8 ELSE 3

\* the identifier has no hex digit beyond the width of its field
IdFits(f) == \A k \in IdWidth(f)..(2 * ID_LIMB_DIGITS) : IdDigit(f, k) = 0

TypeChar(f) ==
    IF f.is_remote THEN (IF f.is_ext_id THEN ChR ELSE Chr)
    ELSE (IF f.is_ext_id THEN ChT ELSE Cht)

RefCount(f) == IF Len(f.data) < 8 THEN Len(f.data) ELSE 8

RefLine(f) ==
    <<TypeChar(f)>>
    \o [i \in 1..IdWidth(f) |-> HexUpper[IdDigit(f, IdWidth(f) - i) + 1]]
    \o <<Ch0 + RefCount(f)>>
    \o [j \in 1..(2 * RefCount(f)) |->
          IF j % 2 = 1 THEN HexUpper[(f.data[(j + 1) \div 2] \div 16) + 1]
                       ELSE HexUpper[(f.data[j \div 2] % 16) + 1]]
    \o <<CR>>

\* "t08183200856411030000\r"
ExampleLine ==
    <<Cht, Ch0, Ch0 + 8, Ch0 + 1, Ch0 + 8, Ch0 + 3, Ch0 + 2, Ch0, Ch0,
      Ch0 + 8, Ch0 + 5, Ch0 + 6, Ch0 + 4, Ch0 + 1, Ch0 + 1, Ch0, Ch0 + 3,
      Ch0, Ch0, Ch0, Ch0, CR>>

\* C11: for every frame whose id fits its field and whose bytes are in
\* 0..255, pack(f) is the type character, the id in upper-case hex padded
\* to 3 or 8 digits, the digit min(len(data), 8) whatever dlc the frame
\* carried, the first min(len(data), 8) bytes as two upper-case hex digits
\* each, and a carriage return; the frame of the example packs to
\* "t08183200856411030000\r".
C11_PackReferenceLine ==
    /\ (cpc = "packed" /\ IdFits(cFrame0) /\ InByteRange(cFrame0.data))
       => cLine = RefLine(cFrame0)
    /\ (cpc = "packed" /\ cFrame0 = ExampleFrame) => cLine = ExampleLine

C11_Witness ==
    /\ cpc = "packed"
    /\ cFrame0.is_ext_id
    /\ cFrame0.id = 536870911
    /\ Len(cFrame0.data) = 9
    /\ cFrame0.dlc # 8
    /\ cLine = RefLine(cFrame0)
    /\ Len(cLine) = 27
    /\ cLine[10] = Ch0 + 8

\* C12: two successive calls of pack on a frame return the same line, and
\* the only field pack changes is dlc, which it sets to min(len(data), 8).
C12_PackRepeatable ==
    /\ cpc = "repacked" => cLine = cPrevLine
    /\ cpc \in {"packed", "repacked"}
       => /\ cFrame = SetProp(cFrame0, "dlc", RefCount(cFrame0))
          /\ cFrame.id = cFrame0.id
          /\ cFrame.is_ext_id = cFrame0.is_ext_id
          /\ cFrame.is_remote = cFrame0.is_remote
          /\ cFrame.data = cFrame0.data

C12_Witness ==
    /\ cpc = "repacked"
    /\ cLine = cPrevLine
    /\ Len(cFrame0.data) = 9
    /\ cFrame0.dlc = 0
    /\ cFrame.dlc = 8
    /\ cFrame.data = cFrame0.data

\* C13: for every frame, also with more than 8 data bytes or an id wider
\* than its field, the packed line has 1 + W + 1 + 2 * min(len(data), 8) + 1
\* characters (W = 3 standard, 8 extended), at most 27, and ends with a
\* carriage return.
C13_PackLength ==
    cpc \in {"packed", "repacked"}
    => /\ Len(cLine) = 1 + IdWidth(cFrame0) + 1 + 2 * RefCount(cFrame0) + 1
       /\ Len(cLine) <= 27
       /\ cLine[Len(cLine)] = CR

C13_Witness ==
    /\ cpc = "packed"
    /\ cFrame0.is_ext_id
    /\ ~IdFits(cFrame0)
    /\ Len(cLine) = 13
    /\ Len(cFrame0.data) = 1

C13_WitnessLong ==
    /\ cpc = "packed"
    /\ cFrame0.is_ext_id
    /\ Len(cFrame0.data) = 9
    /\ Len(cLine) = 27

C13_WitnessOverByte ==
    /\ cpc = "packed"
    /\ cFrame0 = OverByteFrame
    /\ Len(cLine) = 10

\* the identifier of f modulo 16^W, W the width of its field
IdModWidth(f) ==
    IF f.is_ext_id
    THEN IF HasProp(f, "id_hi")
         THEN (f.id_hi % 16) * Pow16(ID_LIMB_DIGITS) + f.id
         ELSE f.id
    ELSE f.id % Pow16(3)

\* C16: packing a frame whose id needs more hex digits than its field
\* raises no error and emits only the low-order digits: the field is
\* id mod 16^W in upper-case zero-padded hex, so parse(pack(f)).id is
\* f.id mod 16^W and not f.id.
C16_WideIdTruncated ==
    /\ (cpc = "packed" /\ ~IdFits(cFrame0))
       => SubSeq(cLine, 2, 1 + IdWidth(cFrame0)) =
            [i \in 1..IdWidth(cFrame0) |->
                HexUpper[IdDigit(cFrame0, IdWidth(cFrame0) - i) + 1]]
    /\ (cpc = "roundtrip" /\ ~IdFits(cFrame0) /\ Len(cFrame0.data) <= 8)
       => /\ cResult.ok
          /\ cResult.frame.id = IdModWidth(cFrame0)
          /\ (HasProp(cFrame0, "id_hi") \/ cResult.frame.id # cFrame0.id)

C16_Witness ==
    /\ cpc = "roundtrip"
    /\ cFrame0.is_ext_id
    /\ HasProp(cFrame0, "id_hi")
    /\ cFrame0.id_hi = 17
    /\ cFrame0.id = 180150000
    /\ cResult.ok
    /\ cResult.frame.id = 448585456

(***************************************************************************)
(* Properties of the session (checked under Spec).                         *)
(***************************************************************************)

\* the step handles one inbound line
RecvStep == nrecv' = nrecv + 1
\* what _parseFrame makes of that line
RecvParse == parseFrame(inLine', lastCMD)
\* the step is one send() call
SendStep == nsend' = nsend + 1

\* C3: when parsing an inbound line fails, whatever the error, the handler
\* does not call the application callback, lets no error escape, logs the
\* error, and leaves the port handle and the last-command slot alone; a
\* well-formed line that arrives after a dropped one is still delivered.
C3_ParseErrorsCaught ==
    [][/\ (RecvStep /\ ~RecvParse.ok)
          => /\ delivered' = delivered
             /\ escaped' = escaped
             /\ logged' = Append(logged, RecvParse.err)
             /\ conn' = conn
             /\ lastCMD' = lastCMD
       /\ (RecvStep /\ nrecv > Len(delivered) /\ RecvParse.ok)
          => /\ Len(delivered') = Len(delivered) + 1
             /\ escaped' = escaped
      ]_vars

C3_Witness ==
    /\ nrecv = 2
    /\ Len(delivered) = 1
    /\ parseFrame(inLine, lastCMD).ok
    /\ \E i \in 1..Len(logged) : logged[i] = ERR_TYPE_ERROR
    /\ escaped = <<>>
    /\ conn = "port"

\* C4: when parsing an inbound line succeeds, the callback is called once
\* with the parsed frame carrying the time read after the parse; calls
\* happen in arrival order, and there is no call without such a line.
C4_DeliveredOncePerParsedLine ==
    [][/\ (RecvStep /\ RecvParse.ok)
          => delivered' =
                 Append(delivered, SetProp(RecvParse.frame, "timestamp", now'))
       /\ (delivered' # delivered)
          => /\ RecvStep
             /\ RecvParse.ok
             /\ Len(delivered') = Len(delivered) + 1
             /\ SubSeq(delivered', 1, Len(delivered)) = delivered
      ]_vars

C4_Witness ==
    /\ Len(delivered) = 2
    /\ nrecv = 2
    /\ HasProp(delivered[1], "is_remote")
    /\ HasProp(delivered[2], "is_remote")
    /\ delivered[1].id = 291
    /\ delivered[1].timestamp < delivered[2].timestamp
    /\ delivered[2].data = <<1, 255>>

\* C5: send(frame) on a session on which open() was never called throws the
\* not-connected error and has no effect: nothing is written, the
\* last-command slot keeps its value and the frame, dlc included, is as it
\* was passed.
C5_SendBeforeOpenFails ==
    [][(SendStep /\ opens = 0)
          => /\ sendThrown' = ERR_NOT_CONNECTED
             /\ written' = written
             /\ lastCMD' = lastCMD
             /\ sendFrame' = sendArg'
      ]_vars

C5_Witness ==
    /\ nsend >= 1
    /\ opens = 0
    /\ sendThrown = ERR_NOT_CONNECTED
    /\ sendArg.dlc # PackDlc(sendArg.data)
    /\ sendFrame = sendArg
    /\ written = <<>>
    /\ lastCMD = Null

\* C6: when the port reports that it is open, the session flushes it and
\* then writes "S<speed>\r" followed by "O\r", nothing else in between,
\* and the last-command slot then holds "O\r".
C6_Handshake ==
    [][(ready' /\ ~ready)
          => /\ written' = written \o <<OpFlush,
                                         OpWrite(<<ChS, Ch0 + speed, CR>>),
                                         OpWrite(<<ChO, CR>>)>>
             /\ lastCMD' = <<ChO, CR>>
      ]_vars

C6_Witness ==
    /\ ready
    /\ Len(written) = 4
    /\ written[1].op = "write"
    /\ written[2] = OpFlush
    /\ written[3] = OpWrite(<<ChS, Ch0 + 5, CR>>)
    /\ written[4] = OpWrite(<<ChO, CR>>)
    /\ lastCMD = <<ChO, CR>>

StartsWithBel(str) == str # <<>> /\ str[1] = BEL

\* C7: a line that starts with BEL, handled while the last-command slot
\* holds "O\r", is reported as the open-failed error and gives the callback
\* no frame, whatever follows the BEL.
C7_BelAfterOpenBus ==
    [][(RecvStep /\ StartsWithBel(inLine') /\ lastCMD = <<ChO, CR>>)
          => /\ logged' = Append(logged, ERR_OPEN_FAILED)
             /\ delivered' = delivered
      ]_vars

C7_Witness ==
    /\ nrecv >= 1
    /\ StartsWithBel(inLine)
    /\ Len(inLine) > 1
    /\ lastCMD = <<ChO, CR>>
    /\ logged # <<>>
    /\ logged[Len(logged)] = ERR_OPEN_FAILED
    /\ delivered = <<>>

\* C8: a line that starts with BEL, handled while the last-command slot
\* holds a packed frame line, is rejected as an unrecognized frame type and
\* gives the callback no frame, whatever follows the BEL.
C8_BelAfterFrameIsBadType ==
    [][(/\ RecvStep
        /\ StartsWithBel(inLine')
        /\ lastCMD \in {packFrame(f).str : f \in SendFrames})
          => /\ logged' = Append(logged, ERR_BAD_TYPE(inLine'))
             /\ delivered' = delivered
      ]_vars

Range(q) == {q[i] : i \in DOMAIN q}

IsWrite(e) == e.op = "write"
\* the strings the port was asked to write, in order
Writes == SelectSeq(written, IsWrite)

\* C14: the last-command slot is null exactly when nothing has been written
\* to the port, and otherwise holds the string of the most recent write
\* (a packed frame line, "S<speed>\r" or "O\r"); no write happens without
\* the slot being set to the string written.
C14_LastCommandInvariant ==
    /\ (lastCMD = Null) <=> (Writes = <<>>)
    /\ Writes # <<>> => lastCMD = Writes[Len(Writes)].str
    /\ lastCMD \in {Null, CmdSpeed(speed), CMD_OPEN_BUS}
                      \cup {packFrame(f).str : f \in SendFrames}

C14_Witness ==
    /\ ready
    /\ nsend = 1
    /\ nrecv >= 1
    /\ Len(Writes) = 3
    /\ Writes[2].str = CMD_OPEN_BUS
    /\ lastCMD = packFrame(ExampleFrame).str
    /\ lastCMD = Writes[3].str

\* the line handled by this step is the answer to the first command, and
\* that command is "S<speed>\r"
ReplyToSpeed ==
    /\ nrecv = 0
    /\ Writes # <<>>
    /\ Writes[1].str = CmdSpeed(speed)

\* the line handled by this step is reported as the open-failed error
ReportedOpenFailed ==
    /\ logged' = Append(logged, ERR_OPEN_FAILED)
    /\ delivered' = delivered

\* no write has followed the "O\r" of the handshake
NoWriteSinceHandshake ==
    written # <<>> /\ written[Len(written)] = OpWrite(CMD_OPEN_BUS)

\* C15 as stated: (i) a BEL line that answers the set-bit-rate command is
\* always reported as the open-failed error; (ii) a BEL line handled after
\* a later send is not reported as the open-failed error.
C15_BelMisattributed ==
    [][/\ (RecvStep /\ StartsWithBel(inLine') /\ ReplyToSpeed)
          => ReportedOpenFailed
       /\ (RecvStep /\ StartsWithBel(inLine') /\ ~NoWriteSinceHandshake)
          => ~ReportedOpenFailed
      ]_vars

\* C15 amended: (i) when a line is handled the slot never holds the
\* set-bit-rate command, and a BEL line that answers it is reported as the
\* open-failed error provided no send was issued after the handshake;
\* (ii) a BEL line handled after a later send is not reported as the
\* open-failed error.
C15_BelMisattributedUnlessSend ==
    [][/\ RecvStep => lastCMD # CmdSpeed(speed)
       /\ (/\ RecvStep /\ StartsWithBel(inLine') /\ ReplyToSpeed
           /\ NoWriteSinceHandshake)
          => ReportedOpenFailed
       /\ (RecvStep /\ StartsWithBel(inLine') /\ ~NoWriteSinceHandshake)
          => /\ ~ReportedOpenFailed
             /\ \A i \in (Len(logged) + 1)..Len(logged') :
                    logged'[i] # ERR_OPEN_FAILED
      ]_vars

C15_Witness ==
    /\ nrecv = 2
    /\ nsend = 1
    /\ StartsWithBel(inLine)
    /\ Len(Writes) = 3
    /\ Writes[1].str = CmdSpeed(speed)
    /\ Writes[2].str = CMD_OPEN_BUS
    /\ lastCMD = Writes[3].str
    /\ Len(logged) >= 2
    /\ logged[2] = ERR_OPEN_FAILED
    /\ \A i \in 3..Len(logged) : logged[i] # ERR_OPEN_FAILED

\* C17: in the Opening state (open() called, the port not yet ready) send
\* does not fail and writes the packed line, so a frame line can precede
\* "S<speed>\r" and "O\r" on the port; when the port becomes ready the slot
\* is overwritten with "O\r".
C17_SendWhileOpening ==
    [][/\ (SendStep /\ opens > 0 /\ ~ready)
          => /\ sendThrown' = NoError
             /\ written' = Append(written, OpWrite(packFrame(sendArg').str))
             /\ lastCMD' = packFrame(sendArg').str
       /\ (~ready /\ ready')
          => /\ lastCMD' = CMD_OPEN_BUS
             /\ written' = written \o <<OpFlush, OpWrite(CmdSpeed(speed)),
                                        OpWrite(CMD_OPEN_BUS)>>
      ]_vars

C17_Witness ==
    /\ ready
    /\ nsend = 1
    /\ sendThrown = NoError
    /\ written = <<OpWrite(packFrame(sendArg).str), OpFlush,
                   OpWrite(CmdSpeed(speed)), OpWrite(CMD_OPEN_BUS)>>
    /\ lastCMD = CMD_OPEN_BUS

\* C18: handling an inbound line, whether or not it parses, writes nothing
\* to the port and leaves the port handle, the device, the speed and the
\* last-command slot as they were; so, while no send follows the handshake,
\* every BEL line is reported as the open-failed error, not only the first.
C18_RecvLeavesSessionAlone ==
    [][/\ RecvStep
          => /\ written' = written
             /\ conn' = conn
             /\ dev_str' = dev_str
             /\ speed' = speed
             /\ lastCMD' = lastCMD
       /\ (RecvStep /\ StartsWithBel(inLine') /\ NoWriteSinceHandshake)
          => ReportedOpenFailed
      ]_vars

C18_Witness ==
    /\ nrecv = 2
    /\ StartsWithBel(inLine)
    /\ NoWriteSinceHandshake
    /\ Len(logged) = 3
    /\ logged[2] = ERR_OPEN_FAILED
    /\ logged[3] = ERR_OPEN_FAILED
    /\ lastCMD = CMD_OPEN_BUS

\* C19: an error the application callback raises while it handles a frame
\* is caught by the handler like a parse error: it is logged, nothing
\* escapes, the session state is unchanged, and a later line that parses
\* is still delivered.
C19_CallbackErrorCaught ==
    [][/\ (RecvStep /\ cbThrew')
          => /\ RecvParse.ok
             /\ logged' = Append(logged, ERR_CALLBACK)
             /\ escaped' = escaped
             /\ <<conn', dev_str', speed', lastCMD', ready', written'>>
                  = <<conn, dev_str, speed, lastCMD, ready, written>>
       /\ (RecvStep /\ RecvParse.ok /\ ~cbThrew')
          => logged' = logged
       /\ (RecvStep /\ RecvParse.ok /\ ERR_CALLBACK \in Range(logged))
          => /\ Len(delivered') = Len(delivered) + 1
             /\ escaped' = escaped
      ]_vars

C19_Witness ==
    /\ nrecv = 2
    /\ ~cbThrew
    /\ logged # <<>>
    /\ logged[Len(logged)] = ERR_CALLBACK
    /\ Len(delivered) = 2
    /\ delivered[2].id = 291
    /\ escaped = <<>>

====
